---- MODULE Spec2Model ----
(***************************************************************************)
(* A model of the healthcare normalisation pipeline of                     *)
(* src/src/data_processor.py (class DataProcessor) as it is driven by      *)
(* src/src/main.py.                                                        *)
(*                                                                         *)
(* A Spark DataFrame is a lazy plan: every action on it (show, count, the  *)
(* write in save_to_csv) evaluates the plan again.  A plan is therefore an *)
(* operator over the source relation df that yields the SET of relations   *)
(* an evaluation may produce; the evaluator is free in the row it keeps in *)
(* dropDuplicates(subset), in the order of rows that compare equal under   *)
(* orderBy, and in how the rows are spread over partitions.                *)
(*                                                                         *)
(* Column values are tuples: <<>> is SQL NULL, <<"a">> a text, <<3>> an    *)
(* identifier; a timestamp is <<date, time-of-day>>.  The value of         *)
(* monotonically_increasing_id() + 1 is the 64 bit number                  *)
(* partition * 2^33 + index-in-partition + 1; it is kept as the pair       *)
(* <<partition, index-in-partition + 1>>, so <<0, k>> is the integer k.    *)
(***************************************************************************)
EXTENDS Integers, Sequences, FiniteSets, TLC

VARIABLES
    df,      \* self.df: the source relation, a sequence of rows
    pc,      \* the call of main() that runs next
    sink,    \* the files under ./data/answers/, by table name
    report,  \* what the last verify_* call printed
    stale,   \* a change made to one dimension row after the fact build
    run,     \* 1 in the first run of main(), 2 in a second run
    prev     \* the files the first run left, seen when a second run starts

vars == <<df, pc, sink, report, stale, run, prev>>

----------------------------------------------------------------------------
(* Bounds of the model *)

\* The longest source relation.
MaxRows == 2
\* The number of partitions an evaluation may spread a relation over.
MaxPart == 2

----------------------------------------------------------------------------
(* Values *)

NULL == <<>>

Txt(s) == <<s>>

\* The text values of the columns orderBy sorts on, in ascending order.
ValueOrder == <<"a", "b", "c", "d">>

\* The place of a value in an ascending orderBy: NULL sorts first.
Ord(v) ==
    IF v = NULL THEN 0
    ELSE CHOOSE i \in 1..Len(ValueOrder) : ValueOrder[i] = v[1]

\* Calendar dates and times of day the model knows, in ascending order.
Dates == <<"2021-06-15", "2021-12-31", "2022-01-01">>

Times == <<"00:00:00", "10:30:00">>

InSeq(x, s) == \E i \in 1..Len(s) : s[i] = x

Rank(x, s) == CHOOSE i \in 1..Len(s) : s[i] = x

\* Timestamp order.
TsLeq(a, b) ==
    \/ Rank(a[1], Dates) < Rank(b[1], Dates)
    \/ /\ a[1] = b[1]
       /\ Rank(a[2], Times) <= Rank(b[2], Times)

\* to_timestamp / CAST(string AS timestamp): "date time" parses to that
\* instant, a bare "date" to midnight of that date, anything else to NULL.
to_timestamp(s) ==
    IF Len(s) = 2 /\ InSeq(s[1], Dates) /\ InSeq(s[2], Times) THEN s
    ELSE IF Len(s) = 1 /\ InSeq(s[1], Dates) THEN <<s[1], "00:00:00">>
    ELSE NULL

\* spark_max: the largest non-null timestamp of a set, NULL when it has none.
spark_max(ts) ==
    LET nn == {t \in ts : t # NULL}
    IN  IF nn = {} THEN NULL
        ELSE CHOOSE m \in nn : \A t \in nn : TsLeq(t, m)

\* SQL comparison operators are three-valued: NULL on a NULL operand.
SqlLeq(a, b) ==
    IF a = NULL \/ b = NULL THEN "null"
    ELSE IF TsLeq(a, b) THEN "true" ELSE "false"

SqlNeq(a, b) ==
    IF a = NULL \/ b = NULL THEN "null"
    ELSE IF a # b THEN "true" ELSE "false"

SqlOr(p, q) ==
    IF p = "true" \/ q = "true" THEN "true"
    ELSE IF p = "null" \/ q = "null" THEN "null"
    ELSE "false"

----------------------------------------------------------------------------
(* Relations *)

\* select(cols) of one row.
Proj(r, cols) == [c \in cols |-> r[c]]

\* The row r with the columns of o set to o's values.
Override(r, o) == [c \in DOMAIN r |-> IF c \in DOMAIN o THEN o[c] ELSE r[c]]

\* The row r with the columns of o added.
Extend(r, o) ==
    [c \in (DOMAIN r) \cup (DOMAIN o) |-> IF c \in DOMAIN o THEN o[c] ELSE r[c]]

\* The rows of a sequence, as a set.
Rows(s) == {s[i] : i \in 1..Len(s)}

NotNull(r, cols) == \A c \in cols : r[c] # NULL

----------------------------------------------------------------------------
(* The source relation                                                     *)
(*                                                                         *)
(* The csv has 47 columns.  Every key column is kept; of the descriptive   *)
(* columns that no operation reads, one stands for each group              *)
(* (patient_first_name for the eleven patient attributes, and so on).      *)

BaseRow ==
    [ visit_id                 |-> NULL,
      visit_datetime           |-> <<"2021-06-15", "10:30:00">>,
      visit_type               |-> Txt("x"),
      patient_id               |-> Txt("p1"),
      patient_first_name       |-> Txt("a"),
      insurance_id             |-> Txt("i1"),
      insurance_payer_name     |-> Txt("a"),
      billing_id               |-> Txt("b1"),
      billing_total_charge     |-> Txt("a"),
      prescription_id          |-> Txt("r1"),
      prescription_drug_name   |-> Txt("a"),
      lab_order_id             |-> Txt("l1"),
      lab_name                 |-> Txt("a"),
      doctor_name              |-> NULL,
      doctor_title             |-> NULL,
      doctor_department        |-> NULL,
      clinic_name              |-> NULL,
      room_number              |-> NULL,
      primary_diagnosis_code   |-> NULL,
      primary_diagnosis_desc   |-> NULL,
      secondary_diagnosis_code |-> NULL,
      secondary_diagnosis_desc |-> NULL,
      treatment_code           |-> NULL,
      treatment_desc           |-> NULL ]

\* Business keys the source rows draw from: two keys that tie under
\* orderBy(doctor_title, doctor_department), one that does not, and one
\* with a NULL in each column.
ProviderKeys ==
    { <<Txt("a"), Txt("a"), Txt("a")>>, <<Txt("b"), Txt("a"), Txt("a")>>,
      <<Txt("c"), Txt("b"), Txt("a")>>, <<NULL, Txt("a"), Txt("a")>>,
      <<Txt("a"), NULL, Txt("a")>>, <<Txt("a"), Txt("a"), NULL>> }

PairKeys ==
    { <<Txt("a"), Txt("a")>>, <<Txt("b"), Txt("a")>>, <<Txt("a"), Txt("b")>>,
      <<NULL, Txt("a")>>, <<Txt("a"), NULL>> }

\* The raw texts of visit_datetime: empty, unparseable, a bare date, and
\* dates with a time of day.
RawDatetimes ==
    { NULL, <<"n/a">>, <<"2021-12-31">>, <<"2021-06-15", "10:30:00">>,
      <<"2021-12-31", "10:30:00">>, <<"2022-01-01", "00:00:00">> }

RowsProvider ==
    { Override(BaseRow, [doctor_name |-> k[1], doctor_title |-> k[2],
                         doctor_department |-> k[3]]) : k \in ProviderKeys }

RowsLocation ==
    { Override(BaseRow, [clinic_name |-> k[1], room_number |-> k[2]])
        : k \in PairKeys }

RowsPrimary ==
    { Override(BaseRow, [primary_diagnosis_code |-> k[1],
                         primary_diagnosis_desc |-> k[2]]) : k \in PairKeys }

RowsSecondary ==
    { Override(BaseRow, [secondary_diagnosis_code |-> k[1],
                         secondary_diagnosis_desc |-> k[2]]) : k \in PairKeys }

\* Rows with both diagnoses, each present or not.
RowsDiagnosis ==
    { Override(BaseRow, [primary_diagnosis_code |-> p,
                         primary_diagnosis_desc |-> Txt("a"),
                         secondary_diagnosis_code |-> s,
                         secondary_diagnosis_desc |-> Txt("c")])
        : <<p, s>> \in {Txt("a"), NULL} \X {Txt("c"), NULL} }

RowsTreatment ==
    { Override(BaseRow, [treatment_code |-> k[1], treatment_desc |-> k[2]])
        : k \in PairKeys }

RowsStatus ==
    { Override(BaseRow, [patient_id |-> p, visit_datetime |-> t])
        : <<p, t>> \in {Txt("p1"), Txt("p2")} \X RawDatetimes }

\* Rows of one identifier column and its descriptive column.
RowsIdentity(idcol, ids, attrcol) ==
    { Override(BaseRow, [c \in {idcol, attrcol} |->
                            IF c = idcol THEN k[1] ELSE k[2]])
        : k \in ids \X {Txt("a"), Txt("b")} }

RowsIdentities ==
    RowsIdentity("patient_id", {Txt("p1"), Txt("p2"), NULL}, "patient_first_name")
    \cup RowsIdentity("insurance_id", {Txt("i1"), Txt("i2")}, "insurance_payer_name")
    \cup RowsIdentity("billing_id", {Txt("b1"), Txt("b2")}, "billing_total_charge")
    \cup RowsIdentity("prescription_id", {Txt("r1"), NULL}, "prescription_drug_name")
    \cup RowsIdentity("lab_order_id", {Txt("l1"), NULL}, "lab_name")

\* Rows that may share a visit_id, or have none, and differ elsewhere.
RowsVisit ==
    { Override(BaseRow, [visit_id |-> v, visit_type |-> t, doctor_name |-> n,
                         doctor_title |-> Txt("a"),
                         doctor_department |-> Txt("a")])
        : <<v, t, n>> \in ({<<i>> : i \in 1..MaxRows} \cup {NULL})
                          \X {Txt("x"), Txt("y")} \X {Txt("a"), NULL} }

SeqsUpTo(R) == UNION {[1..n -> R] : n \in 1..MaxRows}

\* One row per visit: the i-th row is visit i.
UniqueVisits(s) == [i \in 1..Len(s) |-> Override(s[i], [visit_id |-> <<i>>])]

\* The csv files the model reads: every relation of at most MaxRows rows
\* of one of the families above.
Sources ==
    { UniqueVisits(s) : s \in SeqsUpTo(RowsProvider) \cup SeqsUpTo(RowsLocation)
                                \cup SeqsUpTo(RowsPrimary)
                                \cup SeqsUpTo(RowsSecondary)
                                \cup SeqsUpTo(RowsDiagnosis)
                                \cup SeqsUpTo(RowsTreatment)
                                \cup SeqsUpTo(RowsStatus)
                                \cup SeqsUpTo(RowsIdentities) }
    \cup SeqsUpTo(RowsVisit)

\* DataProcessor.__init__: read the csv, add visit_date.
DataProcessor(input_file) ==
    [i \in 1..Len(input_file) |->
        Extend(input_file[i],
               [visit_date |-> to_timestamp(input_file[i].visit_datetime)])]

----------------------------------------------------------------------------
(* Relational operators *)

\* df.select(cols): the rows, projected, duplicates kept.
select(d, cols) == [i \in 1..Len(d) |-> Proj(d[i], cols)]

\* dropDuplicates() on all columns: the distinct rows.
dropDuplicates(s) == Rows(s)

\* dropDuplicates(subset): every relation that keeps, for each value of the
\* subset columns (NULL included), one of the rows that have it.
dropDuplicatesBy(rel, subset) ==
    LET keys == {Proj(r, subset) : r \in rel}
    IN  { {f[k] : k \in keys}
            : f \in {g \in [keys -> rel] : \A k \in keys : Proj(g[k], subset) = k} }

\* filter(col(c).isNotNull() | ...): the conditions joined by | instead of &.
filterNotNull_Any(rel, cols) == {r \in rel : \E c \in cols : r[c] # NULL}

\* filter(col(c).isNotNull() & ...) over the columns cols.
filterNotNull(rel, cols) == {r \in rel : \A c \in cols : r[c] # NULL}

Perms(S) ==
    {f \in [1..Cardinality(S) -> S] :
        \A i, j \in 1..Cardinality(S) : i # j => f[i] # f[j]}

\* r1 strictly before r2 under orderBy(cs), ascending.
SortLess(r1, r2, cs) ==
    \E i \in 1..Len(cs) :
        /\ \A j \in 1..(i - 1) : r1[cs[j]] = r2[cs[j]]
        /\ Ord(r1[cs[i]]) < Ord(r2[cs[i]])

SortTie(r1, r2, cs) == \A i \in 1..Len(cs) : r1[cs[i]] = r2[cs[i]]

\* The ways an evaluation may lay out the rows of rel after orderBy(cs)
\* (cs = <<>>: no orderBy, the rows come out of the shuffle of
\* dropDuplicates): a row order, and a partition for each position.
\* Partitions are read in index order; orderBy range-partitions, so rows
\* that tie stay in one partition.
Layouts(rel, cs) ==
    LET n == Cardinality(rel)
    IN  { <<o, p>> \in Perms(rel) \X [1..n -> 0..(MaxPart - 1)] :
            /\ \A i, j \in 1..n : i < j =>
                  /\ ~SortLess(o[j], o[i], cs)
                  /\ p[i] <= p[j]
                  /\ (cs # <<>> /\ SortTie(o[i], o[j], cs)) => p[i] = p[j] }

\* monotonically_increasing_id() of the row at position k: its partition
\* and its index within that partition.
monotonically_increasing_id(p, k) ==
    <<p[k], Cardinality({j \in 1..k : p[j] = p[k]}) - 1>>

\* id + 1: the index is far below 2^33, so nothing carries into the
\* partition bits.
Plus1(id) == <<id[1], id[2] + 1>>

\* withColumn(idcol, monotonically_increasing_id() + 1) after orderBy(cs).
withSurrogateKey(rel, cs, idcol) ==
    { { Extend(l[1][k], idcol :> Plus1(monotonically_increasing_id(l[2], k)))
          : k \in 1..Cardinality(rel) }
        : l \in Layouts(rel, cs) }

\* left.join(right, on, "inner"): a row of left with no match is dropped.
leftJoin_Inner(left, right, on, add) ==
    { Extend(x[1], Proj(x[2], add))
        : x \in {y \in left \X right :
                    NotNull(y[1], on) /\ Proj(y[2], on) = Proj(y[1], on)} }

\* left.join(right, on, "left"), taking the columns add from right: a row
\* of left pairs with every row of right that equals it on the columns on
\* (a NULL equals nothing), and stays, with NULLs, when none does.
leftJoin(left, right, on, add) ==
    UNION { LET m == {r \in right : NotNull(l, on) /\ Proj(r, on) = Proj(l, on)}
            IN  IF m = {} THEN {Extend(l, [c \in add |-> NULL])}
                ELSE {Extend(l, Proj(r, add)) : r \in m}
          : l \in left }

\* select + withColumnRenamed: the columns DOMAIN ren under their new names.
Renamed(r, ren) ==
    [n \in {ren[c] : c \in DOMAIN ren} |-> r[CHOOSE c \in DOMAIN ren : ren[c] = n]]

----------------------------------------------------------------------------
(* StatusDeriver *)

\* The literal "2021-12-31" of derive_patient_status, cast to the type of
\* last_visit for the comparison.
Cutoff == to_timestamp(<<"2021-12-31">>)

\* when(cond, "Inactive").otherwise("Active"): the otherwise branch is
\* taken unless cond is true.
when_otherwise(cond, a, b) == IF cond = "true" THEN a ELSE b

derive_patient_status(d) ==
    { LET last_visit ==
            spark_max({d[i].visit_date : i \in {j \in 1..Len(d) : d[j].patient_id = p}})
      IN  [ patient_id     |-> p,
            last_visit     |-> last_visit,
            patient_status |-> when_otherwise(SqlLeq(last_visit, Cutoff),
                                              Txt("Inactive"), Txt("Active")) ]
      : p \in {d[i].patient_id : i \in 1..Len(d)} }

----------------------------------------------------------------------------
(* DimensionBuilder: the plan each create_dim_* returns, as the set of     *)
(* relations an evaluation of it may produce.                              *)

patient_cols == {"patient_id", "patient_first_name"}

dim_patient(d) ==
    { leftJoin(patient_df, derive_patient_status(d), {"patient_id"},
               {"patient_status"})
        : patient_df \in dropDuplicatesBy(Rows(select(d, patient_cols)),
                                          {"patient_id"}) }

dim_insurance(d) ==
    dropDuplicatesBy(
        Rows(select(d, {"insurance_id", "patient_id", "insurance_payer_name"})),
        {"insurance_id"})

dim_billing(d) ==
    dropDuplicatesBy(
        Rows(select(d, {"billing_id", "insurance_id", "billing_total_charge"})),
        {"billing_id"})

provider_cols == {"doctor_name", "doctor_title", "doctor_department"}

dim_provider(d) ==
    withSurrogateKey(
        filterNotNull(dropDuplicates(select(d, provider_cols)), provider_cols),
        <<"doctor_title", "doctor_department">>, "provider_id")

location_cols == {"clinic_name", "room_number"}

dim_location(d) ==
    withSurrogateKey(
        filterNotNull(dropDuplicates(select(d, location_cols)), location_cols),
        <<"clinic_name", "room_number">>, "location_id")

primary_cols == {"primary_diagnosis_code", "primary_diagnosis_desc"}

dim_primary_diag(d) ==
    withSurrogateKey(
        filterNotNull(dropDuplicates(select(d, primary_cols)), primary_cols),
        <<>>, "primary_diagnosis_id")

secondary_cols == {"secondary_diagnosis_code", "secondary_diagnosis_desc"}

dim_secondary_diag(d) ==
    withSurrogateKey(
        filterNotNull(dropDuplicates(select(d, secondary_cols)), secondary_cols),
        <<>>, "secondary_diagnosis_id")

treatment_cols == {"treatment_code", "treatment_desc"}

dim_treatment(d) ==
    withSurrogateKey(
        filterNotNull(dropDuplicates(select(d, treatment_cols)), treatment_cols),
        <<>>, "treatment_id")

dim_prescription(d) ==
    dropDuplicatesBy(
        filterNotNull(Rows(select(d, {"prescription_id", "prescription_drug_name"})),
                      {"prescription_id"}),
        {"prescription_id"})

dim_lab_order(d) ==
    dropDuplicatesBy(
        filterNotNull(Rows(select(d, {"lab_order_id", "lab_name"})),
                      {"lab_order_id"}),
        {"lab_order_id"})

----------------------------------------------------------------------------
(* FactBuilder *)

fact_cols ==
    { "visit_id", "patient_id", "insurance_id", "billing_id", "location_id",
      "provider_id", "primary_diagnosis_id", "secondary_diagnosis_id",
      "treatment_id", "prescription_id", "lab_order_id", "visit_date",
      "visit_type" }

\* The five left joins of create_fact_visit on the business-key columns.
FactJoins(d, dp, dl, d1, d2, dt) ==
    leftJoin(
      leftJoin(
        leftJoin(
          leftJoin(
            leftJoin(Rows(d), dp, provider_cols, {"provider_id"}),
            dl, location_cols, {"location_id"}),
          d1, primary_cols, {"primary_diagnosis_id"}),
        d2, secondary_cols, {"secondary_diagnosis_id"}),
      dt, treatment_cols, {"treatment_id"})

\* The fact plan without its dropDuplicates(["visit_id"]).
FactOf_NoDedup(d, dp, dl, d1, d2, dt) ==
    { {Proj(r, fact_cols) : r \in FactJoins(d, dp, dl, d1, d2, dt)} }

\* The relations an evaluation of create_fact_visit's plan may produce
\* once its five dimension plans have evaluated to dp, dl, d1, d2, dt.
FactOf(d, dp, dl, d1, d2, dt) ==
    dropDuplicatesBy({Proj(r, fact_cols) : r \in FactJoins(d, dp, dl, d1, d2, dt)},
                     {"visit_id"})

\* The plan create_fact_visit returns: the dimension plans are evaluated
\* as part of it.
fact_visit(d) ==
    UNION { FactOf(d, e[1], e[2], e[3], e[4], e[5])
              : e \in dim_provider(d) \X dim_location(d) \X dim_primary_diag(d)
                      \X dim_secondary_diag(d) \X dim_treatment(d) }

----------------------------------------------------------------------------
(* ReconciliationEngine                                                    *)
(*                                                                         *)
(* Each verify_* takes plans: fact_df and the dimension arguments are the  *)
(* sets of relations their evaluation may produce.  total, wrong and the   *)
(* rows shown come from three actions (count, count, show), each of which  *)
(* evaluates the plans again.                                              *)

\* self.df.select("visit_id", cols): src numbers the source row, so that
\* equal rows stay apart as they do in a DataFrame.
Original(d, cols) ==
    { Extend(Proj(d[i], cols \cup {"visit_id"}), [src |-> <<i>>])
        : i \in 1..Len(d) }

\* fact.join(dim, on=idcol, "left") with the columns DOMAIN ren of dim
\* renamed by ren.
JoinDim(fact, dim, idcol, ren) ==
    leftJoin(fact, {Extend(Proj(r, {idcol}), Renamed(r, ren)) : r \in dim},
             {idcol}, {ren[c] : c \in DOMAIN ren})

\* .join(self.df.select("visit_id", cols), on="visit_id", "left")
JoinOriginal(joined, d, cols) ==
    leftJoin(joined, Original(d, cols), {"visit_id"}, cols \cup {"src"})

Reports(check, totals, wrongs, showns) ==
    { [check |-> check, total |-> t, wrong |-> w,
       shown |-> IF w > 0 THEN s ELSE {}]
        : <<t, w, s>> \in totals \X wrongs \X showns }

provider_ren ==
    [ doctor_name       |-> "dim_doctor_name",
      doctor_title      |-> "dim_doctor_title",
      doctor_department |-> "dim_doctor_department" ]

provider_joined(f, dp, d) ==
    JoinOriginal(JoinDim(f, dp, "provider_id", provider_ren), d, provider_cols)

provider_mismatches(joined) ==
    { j \in joined :
        SqlOr(SqlOr(SqlNeq(j.dim_doctor_name, j.doctor_name),
                    SqlNeq(j.dim_doctor_title, j.doctor_title)),
              SqlNeq(j.dim_doctor_department, j.doctor_department)) = "true" }

verify_fact_join_accuracy(d, fact_df, dimp) ==
    LET evals == {provider_joined(e[1], e[2], d) : e \in fact_df \X dimp}
    IN  Reports("provider",
                {Cardinality(j) : j \in evals},
                {Cardinality(provider_mismatches(j)) : j \in evals},
                {{m.visit_id : m \in provider_mismatches(j)} : j \in evals})

primary_ren ==
    [ primary_diagnosis_code |-> "dim_primary_code",
      primary_diagnosis_desc |-> "dim_primary_desc" ]

secondary_ren ==
    [ secondary_diagnosis_code |-> "dim_secondary_code",
      secondary_diagnosis_desc |-> "dim_secondary_desc" ]

diagnosis_joined(f, d1, d2, d) ==
    JoinOriginal(
        JoinDim(JoinDim(f, d1, "primary_diagnosis_id", primary_ren),
                d2, "secondary_diagnosis_id", secondary_ren),
        d, primary_cols \cup secondary_cols)

diagnosis_mismatches(joined) ==
    { j \in joined :
        SqlOr(SqlOr(SqlOr(SqlNeq(j.dim_primary_code, j.primary_diagnosis_code),
                          SqlNeq(j.dim_primary_desc, j.primary_diagnosis_desc)),
                    SqlNeq(j.dim_secondary_code, j.secondary_diagnosis_code)),
              SqlNeq(j.dim_secondary_desc, j.secondary_diagnosis_desc)) = "true" }

verify_diagnosis_joins(d, fact_df, dim1, dim2) ==
    LET evals == {diagnosis_joined(e[1], e[2], e[3], d)
                    : e \in fact_df \X dim1 \X dim2}
    IN  Reports("diagnosis",
                {Cardinality(j) : j \in evals},
                {Cardinality(diagnosis_mismatches(j)) : j \in evals},
                {{m.visit_id : m \in diagnosis_mismatches(j)} : j \in evals})

location_ren ==
    [ clinic_name |-> "dim_clinic_name", room_number |-> "dim_room_number" ]

location_joined(f, dl, d) ==
    JoinOriginal(JoinDim(f, dl, "location_id", location_ren), d, location_cols)

location_mismatches(joined) ==
    { j \in joined :
        SqlOr(SqlNeq(j.dim_clinic_name, j.clinic_name),
              SqlNeq(j.dim_room_number, j.room_number)) = "true" }

verify_location_join_accuracy(d, fact_df, diml) ==
    LET evals == {location_joined(e[1], e[2], d) : e \in fact_df \X diml}
    IN  Reports("location",
                {Cardinality(j) : j \in evals},
                {Cardinality(location_mismatches(j)) : j \in evals},
                {{m.visit_id : m \in location_mismatches(j)} : j \in evals})

treatment_ren ==
    [ treatment_code |-> "dim_treatment_code",
      treatment_desc |-> "dim_treatment_desc" ]

treatment_joined(f, dt, d) ==
    JoinOriginal(JoinDim(f, dt, "treatment_id", treatment_ren), d, treatment_cols)

treatment_mismatches(joined) ==
    { j \in joined :
        SqlOr(SqlNeq(j.dim_treatment_code, j.treatment_code),
              SqlNeq(j.dim_treatment_desc, j.treatment_desc)) = "true" }

verify_treatment_join_accuracy(d, fact_df, dimt) ==
    LET evals == {treatment_joined(e[1], e[2], d) : e \in fact_df \X dimt}
    IN  Reports("treatment",
                {Cardinality(j) : j \in evals},
                {Cardinality(treatment_mismatches(j)) : j \in evals},
                {{m.visit_id : m \in treatment_mismatches(j)} : j \in evals})

\* select("visit_id").distinct()
DistinctVisits(rel) == {r.visit_id : r \in rel}

\* verify_data_completeness: the two counts are compared; the missing
\* visits are computed, from one more evaluation of fact_df, only when the
\* counts differ.
verify_data_completeness(d, fact_df) ==
    LET original_visits == Cardinality(DistinctVisits(Rows(d)))
    IN  { [ check      |-> "completeness",
            verified   |-> original_visits = Cardinality(DistinctVisits(f1)),
            original   |-> original_visits,
            normalized |-> Cardinality(DistinctVisits(f1)),
            missing    |-> IF original_visits = Cardinality(DistinctVisits(f1))
                           THEN {}
                           ELSE DistinctVisits(Rows(d)) \ DistinctVisits(f2) ]
          : <<f1, f2>> \in fact_df \X fact_df }

----------------------------------------------------------------------------
(* Sink *)

\* save_to_csv: the file of that name holds the relation the write
\* evaluated, replacing what a file of that name held before.
save_to_csv(files, filename, rel) ==
    [n \in (DOMAIN files) \cup {filename} |->
        IF n = filename THEN rel ELSE files[n]]

NoFiles == [n \in {} |-> {}]

NoReport == [check |-> "none"]

----------------------------------------------------------------------------
(* A dimension or fact row changed after the fact build: the row of table  *)
(* whose key columns equal key gets val in column col.                     *)

NoStale == [table |-> "none", key |-> [none |-> NULL], col |-> "none", val |-> NULL]

Tamper(rel, st) ==
    { IF Proj(r, DOMAIN st.key) = st.key THEN Override(r, st.col :> st.val) ELSE r
        : r \in rel }

\* The plan of table as the verify_* calls get it.
Stale(plan, table) ==
    IF stale.table = table THEN {Tamper(rel, stale) : rel \in plan} ELSE plan

\* The values a changed column may get.
TamperValues == {Txt("z"), NULL}

\* The business keys a change may address in each derived dimension.
DimKeys(d) ==
    [ DimProvider |-> filterNotNull(dropDuplicates(select(d, provider_cols)), provider_cols),
      DimLocation |-> filterNotNull(dropDuplicates(select(d, location_cols)), location_cols),
      DimPrimaryDiagnosis |->
          filterNotNull(dropDuplicates(select(d, primary_cols)), primary_cols),
      DimSecondaryDiagnosis |->
          filterNotNull(dropDuplicates(select(d, secondary_cols)), secondary_cols),
      DimTreatment |->
          filterNotNull(dropDuplicates(select(d, treatment_cols)), treatment_cols) ]

\* The changes of one attribute of one row of dimension t.
DimChanges(t, keys) ==
    UNION { UNION { { [table |-> t, key |-> k, col |-> c, val |-> v]
                        : v \in TamperValues \ {k[c]} }
                  : c \in DOMAIN k }
          : k \in keys }

\* The changes of the visit_id of one fact row.
FactChanges(d) ==
    { [table |-> "FactVisit", key |-> [visit_id |-> x[1]], col |-> "visit_id",
       val |-> x[2]]
        : x \in { y \in DistinctVisits(Rows(d))
                          \X ({<<i>> : i \in 1..(MaxRows + 1)} \cup {NULL})
                    : y[1] # y[2] } }

StaleChanges(d) ==
    UNION {DimChanges(t, DimKeys(d)[t]) : t \in DOMAIN DimKeys(d)}
    \cup FactChanges(d)

----------------------------------------------------------------------------
(* main() *)

Init ==
    /\ df \in {DataProcessor(input_file) : input_file \in Sources}
    /\ pc = "create_dim_patient"
    /\ sink = NoFiles
    /\ report = NoReport
    /\ stale = NoStale
    /\ run = 1
    /\ prev = NoFiles

\* A create_* call of main: show and the write each evaluate the plan; the
\* write leaves its evaluation in the sink.
Create(step, plan, filename, next) ==
    /\ pc = step
    /\ \E rel \in plan : sink' = save_to_csv(sink, filename, rel)
    /\ pc' = next
    /\ UNCHANGED <<df, report, stale, run, prev>>

create_dim_patient ==
    Create("create_dim_patient", dim_patient(df), "DimPatient",
           "create_dim_insurance")

create_dim_insurance ==
    Create("create_dim_insurance", dim_insurance(df), "DimInsurance",
           "create_dim_billing")

create_dim_billing ==
    Create("create_dim_billing", dim_billing(df), "DimBilling",
           "create_dim_provider")

create_dim_provider ==
    Create("create_dim_provider", dim_provider(df), "DimProvider",
           "create_dim_location")

create_dim_location ==
    Create("create_dim_location", dim_location(df), "DimLocation",
           "create_dim_primary_diagnosis")

create_dim_primary_diagnosis ==
    Create("create_dim_primary_diagnosis", dim_primary_diag(df),
           "DimPrimaryDiagnosis", "create_dim_secondary_diagnosis")

create_dim_secondary_diagnosis ==
    Create("create_dim_secondary_diagnosis", dim_secondary_diag(df),
           "DimSecondaryDiagnosis", "create_dim_treatment")

create_dim_treatment ==
    Create("create_dim_treatment", dim_treatment(df), "DimTreatment",
           "create_dim_prescription")

create_dim_prescription ==
    Create("create_dim_prescription", dim_prescription(df), "DimPrescription",
           "create_dim_lab_order")

create_dim_lab_order ==
    Create("create_dim_lab_order", dim_lab_order(df), "DimLabOrder",
           "create_fact_visit")

create_fact_visit ==
    Create("create_fact_visit", fact_visit(df), "FactVisit",
           "verify_fact_join_accuracy")

\* A verify_* call of main: it prints one of the reports its evaluations
\* may give.
Verify(step, reports, next) ==
    /\ pc = step
    /\ report' \in reports
    /\ pc' = next
    /\ UNCHANGED <<df, sink, stale, run, prev>>

check_provider ==
    Verify("verify_fact_join_accuracy",
           verify_fact_join_accuracy(df, Stale(fact_visit(df), "FactVisit"),
                                     Stale(dim_provider(df), "DimProvider")),
           "verify_diagnosis_joins")

check_diagnosis ==
    Verify("verify_diagnosis_joins",
           verify_diagnosis_joins(df, Stale(fact_visit(df), "FactVisit"),
               Stale(dim_primary_diag(df), "DimPrimaryDiagnosis"),
               Stale(dim_secondary_diag(df), "DimSecondaryDiagnosis")),
           "verify_location_join_accuracy")

check_location ==
    Verify("verify_location_join_accuracy",
           verify_location_join_accuracy(df, Stale(fact_visit(df), "FactVisit"),
                                         Stale(dim_location(df), "DimLocation")),
           "verify_treatment_join_accuracy")

check_treatment ==
    Verify("verify_treatment_join_accuracy",
           verify_treatment_join_accuracy(df, Stale(fact_visit(df), "FactVisit"),
                                          Stale(dim_treatment(df), "DimTreatment")),
           "verify_data_completeness")

check_completeness ==
    Verify("verify_data_completeness",
           verify_data_completeness(df, Stale(fact_visit(df), "FactVisit")),
           "done")

\* main() up to the fact build.
Build ==
    \/ create_dim_patient
    \/ create_dim_insurance
    \/ create_dim_billing
    \/ create_dim_provider
    \/ create_dim_location
    \/ create_dim_primary_diagnosis
    \/ create_dim_secondary_diagnosis
    \/ create_dim_treatment
    \/ create_dim_prescription
    \/ create_dim_lab_order
    \/ create_fact_visit

SpecBuild == Init /\ [][Build]_vars

Next ==
    \/ Build
    \/ check_provider
    \/ check_diagnosis
    \/ check_location
    \/ check_treatment
    \/ check_completeness

Spec == Init /\ [][Next]_vars

\* One row of a dimension, or of the fact relation, is changed between the
\* fact build and the verify_* calls.
Corrupt ==
    /\ pc = "verify_fact_join_accuracy"
    /\ stale = NoStale
    /\ stale' \in StaleChanges(df)
    /\ UNCHANGED <<df, pc, sink, report, run, prev>>

\* The sources of the specification with a change: the families whose rows
\* carry business keys.
InitStale ==
    /\ df \in {DataProcessor(input_file)
                : input_file \in
                    {UniqueVisits(s) : s \in SeqsUpTo(RowsProvider)
                                            \cup SeqsUpTo(RowsLocation)
                                            \cup SeqsUpTo(RowsDiagnosis)
                                            \cup SeqsUpTo(RowsTreatment)}
                    \cup SeqsUpTo(RowsVisit)}
    /\ pc = "create_dim_patient"
    /\ sink = NoFiles
    /\ report = NoReport
    /\ stale = NoStale
    /\ run = 1
    /\ prev = NoFiles

SpecStale == InitStale /\ [][Next \/ Corrupt]_vars

\* main() is run a second time on the same csv.
Rerun ==
    /\ pc = "done"
    /\ run = 1
    /\ run' = 2
    /\ prev' = sink
    /\ pc' = "create_dim_patient"
    /\ report' = NoReport
    /\ UNCHANGED <<df, sink, stale>>

\* The sources of the two-run specification: the families whose rows
\* differ in the identity dimensions' columns or share a visit_id.
InitRerun ==
    /\ df \in {DataProcessor(input_file)
                : input_file \in {UniqueVisits(s) : s \in SeqsUpTo(RowsIdentities)}
                                 \cup SeqsUpTo(RowsVisit)}
    /\ pc = "create_dim_patient"
    /\ sink = NoFiles
    /\ report = NoReport
    /\ stale = NoStale
    /\ run = 1
    /\ prev = NoFiles

SpecRerun == InitRerun /\ [][Next \/ Rerun]_vars

----------------------------------------------------------------------------
(* Properties *)

Written(n) == n \in DOMAIN sink

\* The visit_id values of the source.
SourceVisits == {df[i].visit_id : i \in 1..Len(df)}

\* The derived dimensions: file, business-key columns, surrogate key.
Derived ==
    { <<"DimProvider", provider_cols, "provider_id">>,
      <<"DimLocation", location_cols, "location_id">>,
      <<"DimPrimaryDiagnosis", primary_cols, "primary_diagnosis_id">>,
      <<"DimSecondaryDiagnosis", secondary_cols, "secondary_diagnosis_id">>,
      <<"DimTreatment", treatment_cols, "treatment_id">> }

\* The distinct business keys of the source with no NULL component.
FullKeys(cols) ==
    {k \in {Proj(df[i], cols) : i \in 1..Len(df)} : \A c \in cols : k[c] # NULL}

\* C1: the fact relation has exactly one row per distinct visit_id of the
\* source: no visit_id twice, the same set of visit_id values as the
\* source, and as many rows as the source has distinct visit_id values.
C1_FactOneRowPerVisit ==
    Written("FactVisit") =>
        /\ \A r1, r2 \in sink.FactVisit : r1.visit_id = r2.visit_id => r1 = r2
        /\ {r.visit_id : r \in sink.FactVisit} = SourceVisits
        /\ Cardinality(sink.FactVisit) = Cardinality(SourceVisits)

\* C1 witness: the fact relation is built from a source in which two
\* different rows share one visit_id and a join has found a provider.
C1_Witness ==
    /\ Written("FactVisit")
    /\ \E i, j \in 1..Len(df) : df[i].visit_id = df[j].visit_id /\ df[i] # df[j]
    /\ \E r \in sink.FactVisit : r.provider_id # NULL

\* C2 as stated: for each derived dimension, a source row whose business
\* key has a NULL column has a fact row for its visit_id, and every fact
\* row of that visit_id has a NULL foreign key for the dimension.
C2_Original ==
    Written("FactVisit") =>
        \A e \in Derived : \A i \in 1..Len(df) :
            ~NotNull(df[i], e[2]) =>
                /\ \E r \in sink.FactVisit : r.visit_id = df[i].visit_id
                /\ \A r \in sink.FactVisit :
                      r.visit_id = df[i].visit_id => r[e[3]] = NULL

\* C2 as amended: the fact row of that visit_id exists, and its foreign key
\* is NULL whenever no source row of that visit_id has a fully populated
\* business key (so always when the visit_id is in one source row only).
C2_UnmatchedKept ==
    Written("FactVisit") =>
        \A e \in Derived : \A i \in 1..Len(df) :
            ~NotNull(df[i], e[2]) =>
                /\ \E r \in sink.FactVisit : r.visit_id = df[i].visit_id
                /\ (\A j \in 1..Len(df) :
                        df[j].visit_id = df[i].visit_id => ~NotNull(df[j], e[2]))
                   => \A r \in sink.FactVisit :
                          r.visit_id = df[i].visit_id => r[e[3]] = NULL

\* C2 witness: a fact relation with one visit that found its provider and
\* another visit whose doctor_name is NULL.
C2_Witness ==
    /\ Written("FactVisit")
    /\ \E i \in 1..Len(df) :
          /\ df[i].doctor_name = NULL /\ df[i].doctor_title # NULL
          /\ \E r \in sink.FactVisit :
                r.visit_id = df[i].visit_id /\ r.provider_id = NULL
    /\ \E r \in sink.FactVisit : r.provider_id # NULL

\* C3: each derived dimension has exactly one row per distinct
\* fully-populated business key of the source, and no other row.
C3_OneRowPerFullKey ==
    \A e \in Derived :
        Written(e[1]) =>
            /\ {Proj(r, e[2]) : r \in sink[e[1]]} = FullKeys(e[2])
            /\ Cardinality(sink[e[1]]) = Cardinality(FullKeys(e[2]))

\* C3 witness: a treatment dimension of one row, from a source of two rows
\* of which one has a NULL treatment_desc.
C3_Witness ==
    /\ Written("DimTreatment")
    /\ Cardinality(sink.DimTreatment) = 1
    /\ \E i \in 1..Len(df) :
          df[i].treatment_code # NULL /\ df[i].treatment_desc = NULL

\* C4 as stated: the surrogate keys of a derived dimension of N rows are
\* exactly the integers 1..N.
C4_KeysContiguous ==
    \A e \in Derived :
        Written(e[1]) =>
            {r[e[3]] : r \in sink[e[1]]}
                = {<<0, k>> : k \in 1..Cardinality(sink[e[1]])}

\* The rows of patient p in the source.
VisitsOf(p) == {i \in 1..Len(df) : df[i].patient_id = p}

LastVisit(p) == spark_max({df[i].visit_date : i \in VisitsOf(p)})

\* C5 as stated: a patient with a visit date is Inactive exactly when the
\* calendar date of the latest visit is on or before 2021-12-31, whatever
\* the time of day, and Active otherwise.
C5_StatusByDate ==
    Written("DimPatient") =>
        \A r \in sink.DimPatient :
            (r.patient_id # NULL /\ LastVisit(r.patient_id) # NULL) =>
                r.patient_status =
                    IF Rank(LastVisit(r.patient_id)[1], Dates)
                           <= Rank("2021-12-31", Dates)
                    THEN Txt("Inactive") ELSE Txt("Active")

\* C6 as stated: a patient none of whose rows has a visit date has a NULL
\* patient_status in the patient dimension.
C6_NoDateNoStatus ==
    Written("DimPatient") =>
        \A r \in sink.DimPatient :
            (r.patient_id # NULL /\ LastVisit(r.patient_id) = NULL) =>
                r.patient_status = NULL

OneRowPerVisit ==
    \A i, j \in 1..Len(df) : i # j => df[i].visit_id # df[j].visit_id

\* C7 as stated: on a source with one row per visit_id, each of the four
\* reconciliations reports 0 mismatches and as many rows checked as the
\* fact relation has rows.
C7_ZeroMismatch ==
    (report.check \in {"provider", "diagnosis", "location", "treatment"}
        /\ OneRowPerVisit)
    => /\ report.wrong = 0
       /\ report.total = Cardinality(sink.FactVisit)

\* The reconciliation that reads a dimension.
CheckOf ==
    [ DimProvider |-> "provider", DimLocation |-> "location",
      DimPrimaryDiagnosis |-> "diagnosis", DimSecondaryDiagnosis |-> "diagnosis",
      DimTreatment |-> "treatment" ]

\* The visits whose business key is the key of the changed dimension row.
Referring ==
    {df[i].visit_id : i \in {j \in 1..Len(df) :
                                Proj(df[j], DOMAIN stale.key) = stale.key}}

\* C8 as stated: after one attribute of one dimension row is changed, the
\* reconciliation of that dimension reports exactly the fact rows that
\* refer to the changed row, and more than 0 of them when there is one.
C8_StaleCaught ==
    (stale.table \in DOMAIN CheckOf /\ report.check = CheckOf[stale.table])
    => /\ report.wrong = Cardinality(Referring)
       /\ Referring # {} => (report.wrong > 0 /\ report.shown = Referring)

\* C9 as stated: completeness is reported as verified only when the fact
\* relation passed has the visit_id values of the source, and when it has
\* not, the report is an incompleteness with the missing source visits.
C9_Completeness ==
    report.check = "completeness" =>
        \A f \in Stale(fact_visit(df), "FactVisit") :
            /\ report.verified => DistinctVisits(f) = SourceVisits
            /\ DistinctVisits(f) # SourceVisits =>
                  /\ ~report.verified
                  /\ report.missing = SourceVisits \ DistinctVisits(f)

IdentityFiles ==
    {"DimPatient", "DimInsurance", "DimBilling", "DimPrescription", "DimLabOrder"}

surrogate_cols ==
    { "provider_id", "location_id", "primary_diagnosis_id",
      "secondary_diagnosis_id", "treatment_id" }

NonSurrogate(rel) == {Proj(r, (DOMAIN r) \ surrogate_cols) : r \in rel}

\* C10 as stated: a second run on the same source leaves every identity
\* dimension and the fact relation with the rows and the non-surrogate
\* values the first run gave them.
C10_SameRows ==
    (run = 2 /\ pc = "done") =>
        \A n \in IdentityFiles \cup {"FactVisit"} :
            NonSurrogate(sink[n]) = NonSurrogate(prev[n])

\* One total order of each derived dimension's business keys: the columns
\* of the builder's orderBy first, then the other key columns.
TotalOrder ==
    [ DimProvider |-> <<"doctor_title", "doctor_department", "doctor_name">>,
      DimLocation |-> <<"clinic_name", "room_number">>,
      DimPrimaryDiagnosis |-> <<"primary_diagnosis_code", "primary_diagnosis_desc">>,
      DimSecondaryDiagnosis |->
          <<"secondary_diagnosis_code", "secondary_diagnosis_desc">>,
      DimTreatment |-> <<"treatment_code", "treatment_desc">> ]

\* The 1-based rank of business key k among the fully-populated keys of the
\* source, in the total order cs.
RankOf(k, cols, cs) ==
    1 + Cardinality({o \in FullKeys(cols) : SortLess(o, k, cs)})

\* C11 as stated: in every derived dimension the surrogate key of a row is
\* the 1-based rank of its business key in one ascending total order of the
\* distinct fully-populated business keys of the source, so it depends on
\* that set only.
C11_KeyIsRank ==
    \A e \in Derived :
        Written(e[1]) =>
            \A r \in sink[e[1]] :
                r[e[3]] = <<0, RankOf(Proj(r, e[2]), e[2], TotalOrder[e[1]])>>

\* C12 as stated: on a source with one row per visit_id, the foreign key a
\* visit carries in the fact relation written to the sink is the surrogate
\* key that the visit's business key has in the dimension relation written
\* to the sink, and the reconciliations, which look the key up in one more
\* evaluation of the dimension, find no mismatch.
C12_OneDimension ==
    /\ (Written("FactVisit") /\ OneRowPerVisit) =>
          \A e \in Derived : \A r \in sink.FactVisit : \A i \in 1..Len(df) :
              (df[i].visit_id = r.visit_id /\ NotNull(df[i], e[2])) =>
                  \E x \in sink[e[1]] :
                      /\ Proj(x, e[2]) = Proj(df[i], e[2])
                      /\ x[e[3]] = r[e[3]]
    /\ (report.check \in {"provider", "diagnosis", "location", "treatment"}
          /\ OneRowPerVisit) => report.wrong = 0

====
